---------------------------- MODULE Spec2Model ----------------------------
(***************************************************************************)
(* Model of src/homework.py: the fitness-tracker calculation hierarchy     *)
(* (Training, Running, SportsWalking, Swimming), the InfoMessage record,   *)
(* the dispatcher read_package, main and the __main__ loop.                *)
(*                                                                         *)
(* Numbers.  A Python number is modelled as an exact rational              *)
(* [num |-> n, den |-> d] in lowest terms with d > 0.  The float literals  *)
(* of the source (0.65, 1.38, 0.035, 0.029, 1.1) are the decimal fractions *)
(* they are written as; the rounding of IEEE-754 doubles is not modelled.  *)
(*                                                                         *)
(* Exceptions.  A call that may raise returns [exc |-> e, val |-> v]:      *)
(* exc = "None" and the returned value, or the name of the exception.      *)
(*                                                                         *)
(* Class objects.  The source returns the classes ValueError and           *)
(* NotImplementedError as values; a class object is                        *)
(* [kind |-> "type", name |-> n].                                          *)
(***************************************************************************)
EXTENDS Integers, Sequences, FiniteSets, TLC

VARIABLES
    packages,   \* the list iterated by the __main__ loop (line 142)
    idx,        \* 1-based position of the for loop (line 148)
    pc,         \* "read" | "main" | "print" | "done" | "error"
    training,   \* the local `training` (line 149) / main's parameter
    info,       \* the local `info` of main (line 137)
    out,        \* the lines printed to standard output so far (line 138)
    exc         \* the uncaught exception that ended the run, or "None"

vars == <<packages, idx, pc, training, info, out, exc>>

----------------------------------------------------------------------------
(* Bounds of the model *)

MaxPackages == 3

MaxData == 6

----------------------------------------------------------------------------
(* Exact rational arithmetic standing for Python's numeric operators *)

Abs(x) == IF x < 0 THEN -x ELSE x

RECURSIVE GCD(_, _)
GCD(a, b) == IF b = 0 THEN a ELSE GCD(b, a % b)

Rat(n, d) ==
    LET g == GCD(Abs(n), Abs(d))
        s == IF d < 0 THEN -1 ELSE 1
    IN  [num |-> (s * n) \div g, den |-> (s * d) \div g]

Num(k) == Rat(k, 1)

Add(x, y) == Rat(x.num * y.den + y.num * x.den, x.den * y.den)

Sub(x, y) == Rat(x.num * y.den - y.num * x.den, x.den * y.den)

\* the common factors are cancelled before the products are formed
Mul(x, y) ==
    LET g == GCD(Abs(x.num), y.den)
        h == GCD(Abs(y.num), x.den)
    IN  Rat((x.num \div g) * (y.num \div h), (x.den \div h) * (y.den \div g))

\* x / y, for y # 0 (the callers raise ZeroDivisionError otherwise)
TrueDiv(x, y) == Mul(x, Rat(y.den, y.num))

\* mathematical floor of n / d for d > 0
Floor(n, d) == IF n >= 0 THEN n \div d ELSE -((-n + d - 1) \div d)

\* x // y, for y # 0: the floor of the quotient, as a number
FloorDiv(x, y) ==
    LET q == TrueDiv(x, y) IN Num(Floor(q.num, q.den))

IsZero(x) == x.num = 0

IsNumber(v) == DOMAIN v = {"num", "den"}

----------------------------------------------------------------------------
(* Results of calls, class objects *)

NoValue == [kind |-> "none"]

Ok(v) == [exc |-> "None", val |-> v]

Raise(e) == [exc |-> e, val |-> NoValue]

ClassObj(n) == [kind |-> "type", name |-> n]


----------------------------------------------------------------------------
(* class constants (lines 29-31, 66-67, 78-79, 101-103) *)

M_IN_KM == 1000

MIN_IN_HOUR == 60

\* mutant: Swimming does not override LEN_STEP
LEN_STEP_NoOverride(cls) == Rat(65, 100)

LEN_STEP(cls) == IF cls = "Swimming" THEN Rat(138, 100) ELSE Rat(65, 100)

COEFF_CAL_1 == 18

COEFF_CAL_2 == 20

COEFF_WEIGHT_WLK_1 == Rat(35, 1000)

COEFF_WEIGHT_WLK_2 == Rat(29, 1000)

COEFF_1 == Rat(11, 10)

COEFF_2 == 2

----------------------------------------------------------------------------
(* constructors: Training.__init__, SportsWalking.__init__,                *)
(* Swimming.__init__; Running inherits Training.__init__                   *)

Classes == {"Training", "Running", "SportsWalking", "Swimming"}

\* mutant: Swimming.__init__ takes count_pool before length_pool
InitParams_Swapped(cls) ==
    CASE cls = "SportsWalking" ->
            <<"action", "duration", "weight", "height">>
      [] cls = "Swimming" ->
            <<"action", "duration", "weight", "count_pool", "length_pool">>
      [] OTHER ->
            <<"action", "duration", "weight">>

\* the positional parameters of cls.__init__ after self
InitParams(cls) ==
    CASE cls = "SportsWalking" ->
            <<"action", "duration", "weight", "height">>
      [] cls = "Swimming" ->
            <<"action", "duration", "weight", "length_pool", "count_pool">>
      [] OTHER ->
            <<"action", "duration", "weight">>

\* mutant: surplus positional arguments are dropped instead of refused
New_AcceptsExtra(cls, data) ==
    LET params == InitParams(cls) IN
    IF Len(data) < Len(params)
    THEN Raise("TypeError")
    ELSE Ok([kind  |-> "instance",
             cls   |-> cls,
             attrs |-> [f \in {params[k] : k \in 1..Len(params)} |->
                          data[CHOOSE k \in 1..Len(params) : params[k] = f]]])

\* cls(*data): binds data positionally; a wrong count raises TypeError
New(cls, data) ==
    LET params == InitParams(cls) IN
    IF Len(data) # Len(params)
    THEN Raise("TypeError")
    ELSE Ok([kind  |-> "instance",
             cls   |-> cls,
             attrs |-> [f \in {params[k] : k \in 1..Len(params)} |->
                          data[CHOOSE k \in 1..Len(params) : params[k] = f]]])

----------------------------------------------------------------------------
(* methods *)

\* Training.get_distance (inherited by every subclass)
get_distance(self) ==
    TrueDiv(Mul(self.attrs.action, LEN_STEP(self.cls)), Num(M_IN_KM))

\* mutant: Swimming does not override get_mean_speed
get_mean_speed_NoOverride(self) ==
    IF IsZero(self.attrs.duration)
    THEN Raise("ZeroDivisionError")
    ELSE Ok(TrueDiv(get_distance(self), self.attrs.duration))

\* Training.get_mean_speed, overridden by Swimming.get_mean_speed
get_mean_speed(self) ==
    IF self.cls = "Swimming"
    THEN LET value_pool == Mul(self.attrs.length_pool, self.attrs.count_pool)
         IN  IF IsZero(self.attrs.duration)
             THEN Raise("ZeroDivisionError")
             ELSE Ok(TrueDiv(TrueDiv(value_pool, Num(M_IN_KM)),
                             self.attrs.duration))
    ELSE IF IsZero(self.attrs.duration)
         THEN Raise("ZeroDivisionError")
         ELSE Ok(TrueDiv(get_distance(self), self.attrs.duration))

\* mutant: the two coefficients of Running are exchanged
Running_get_spent_calories_Swapped(self) ==
    LET ms == get_mean_speed(self) IN
    IF ms.exc # "None" THEN ms
    ELSE LET speed == Sub(Mul(Num(COEFF_CAL_2), ms.val), Num(COEFF_CAL_1))
             training_in_min == Mul(self.attrs.duration, Num(MIN_IN_HOUR))
         IN  Ok(Mul(TrueDiv(Mul(speed, self.attrs.weight), Num(M_IN_KM)),
                    training_in_min))

\* Running.get_spent_calories
Running_get_spent_calories(self) ==
    LET ms == get_mean_speed(self) IN
    IF ms.exc # "None" THEN ms
    ELSE LET speed == Sub(Mul(Num(COEFF_CAL_1), ms.val), Num(COEFF_CAL_2))
             training_in_min == Mul(self.attrs.duration, Num(MIN_IN_HOUR))
         IN  Ok(Mul(TrueDiv(Mul(speed, self.attrs.weight), Num(M_IN_KM)),
                    training_in_min))

\* mutant: true division in place of the floor division of line 90
SportsWalking_get_spent_calories_TrueDiv(self) ==
    LET weight_gl_wlk == Mul(COEFF_WEIGHT_WLK_2, self.attrs.weight)
        ms == get_mean_speed(self)
    IN  IF ms.exc # "None" THEN ms
        ELSE IF IsZero(self.attrs.height) THEN Raise("ZeroDivisionError")
        ELSE LET speed_gd_wlk == TrueDiv(Mul(ms.val, ms.val),
                                         self.attrs.height)
                 time_duration == Mul(self.attrs.duration, Num(MIN_IN_HOUR))
             IN  Ok(Mul(Add(Mul(COEFF_WEIGHT_WLK_1, self.attrs.weight),
                            Mul(speed_gd_wlk, weight_gl_wlk)),
                        time_duration))

\* SportsWalking.get_spent_calories
SportsWalking_get_spent_calories(self) ==
    LET weight_gl_wlk == Mul(COEFF_WEIGHT_WLK_2, self.attrs.weight)
        ms == get_mean_speed(self)
    IN  IF ms.exc # "None" THEN ms
        ELSE IF IsZero(self.attrs.height) THEN Raise("ZeroDivisionError")
        ELSE LET speed_gd_wlk == FloorDiv(Mul(ms.val, ms.val),
                                          self.attrs.height)
                 time_duration == Mul(self.attrs.duration, Num(MIN_IN_HOUR))
             IN  Ok(Mul(Add(Mul(COEFF_WEIGHT_WLK_1, self.attrs.weight),
                            Mul(speed_gd_wlk, weight_gl_wlk)),
                        time_duration))

\* Swimming.get_spent_calories
Swimming_get_spent_calories(self) ==
    LET value_weight == Mul(Num(COEFF_2), self.attrs.weight)
        ms == get_mean_speed(self)
    IN  IF ms.exc # "None" THEN ms
        ELSE Ok(Mul(Add(ms.val, COEFF_1), value_weight))

\* Training.get_spent_calories: returns the class NotImplementedError
Training_get_spent_calories(self) == Ok(ClassObj("NotImplementedError"))

\* method resolution of self.get_spent_calories()
get_spent_calories(self) ==
    CASE self.cls = "Running"       -> Running_get_spent_calories(self)
      [] self.cls = "SportsWalking" -> SportsWalking_get_spent_calories(self)
      [] self.cls = "Swimming"      -> Swimming_get_spent_calories(self)
      [] OTHER                      -> Training_get_spent_calories(self)

\* Training.show_training_info: the arguments are evaluated left to right
show_training_info(self) ==
    LET ms  == get_mean_speed(self)
        cal == get_spent_calories(self)
    IN  IF ms.exc # "None" THEN ms
        ELSE IF cal.exc # "None" THEN cal
        ELSE Ok([training_type |-> self.cls,
                 duration      |-> self.attrs.duration,
                 distance      |-> get_distance(self),
                 speed         |-> ms.val,
                 calories      |-> cal.val])

----------------------------------------------------------------------------
(* InfoMessage.get_message *)

\* format(x, ".3f"): the sign, the integer part and exactly three decimals,
\* rounded to the nearest thousandth (half to even)
Format3f(x) ==
    LET a  == Abs(x.num) * 1000
        q  == a \div x.den
        r  == a % x.den
        up == (2 * r > x.den) \/ (2 * r = x.den /\ q % 2 = 1)
        m  == IF up THEN q + 1 ELSE q
    IN  [neg   |-> x.num < 0,
         whole |-> m \div 1000,
         frac  |-> <<(m \div 100) % 10, (m \div 10) % 10, m % 10>>]

\* The fixed text of MESSAGE is constant; the model keeps the substituted
\* fields, in template order.
MessageFields == <<"duration", "distance", "speed", "calories">>

\* MESSAGE.format(**asdict(self)): a field that is not a number cannot take
\* the format ".3f" and raises TypeError
get_message(self) ==
    IF \E k \in 1..Len(MessageFields) : ~IsNumber(self[MessageFields[k]])
    THEN Raise("TypeError")
    ELSE Ok([training_type |-> self.training_type,
             duration      |-> Format3f(self.duration),
             distance      |-> Format3f(self.distance),
             speed         |-> Format3f(self.speed),
             calories      |-> Format3f(self.calories)])

----------------------------------------------------------------------------
(* read_package *)

training_dict ==
    [SWM |-> "Swimming", RUN |-> "Running", WLK |-> "SportsWalking"]

\* an unknown code returns the class ValueError (line 131), it does not raise
read_package(workout_type, data) ==
    IF workout_type \notin DOMAIN training_dict
    THEN Ok(ClassObj("ValueError"))
    ELSE New(training_dict[workout_type], data)

\* the call training.show_training_info() of main (line 137): a class object
\* such as ValueError has no such attribute
main_info(t) ==
    IF t.kind # "instance"
    THEN Raise("AttributeError")
    ELSE show_training_info(t)

----------------------------------------------------------------------------
(* inputs *)

\* the three codes of training_dict and one code that is not in it
WorkoutTypes == {"SWM", "RUN", "WLK", "XYZ"}

\* the rows of `packages` in the source (lines 143-145)
SourceData ==
    { <<Num(720), Num(1), Num(80), Num(25), Num(40)>>,
      <<Num(15000), Num(1), Num(75)>>,
      <<Num(9000), Num(1), Num(75), Num(180)>> }

\* the rows the script is tried on: those of the source, a two-hour run
\* and a row with a zero duration
SampleData ==
    SourceData \cup { <<Num(720), Num(2), Num(80)>>,
                      <<Num(9000), Num(0), Num(75), Num(25)>> }

\* the values tried at position k of a parameter list
ValuesAt(k) ==
    CASE k = 1 -> {720, 9000, 15000}
      [] k = 2 -> {0, 1, 2}
      [] k = 3 -> {75, 80}
      [] k = 4 -> {0, 25, 180}
      [] k = 5 -> {40}
      [] OTHER -> {0}

RECURSIVE DataOfLen(_)
DataOfLen(n) ==
    IF n = 0 THEN {<<>>}
    ELSE {Append(d, Num(v)) : d \in DataOfLen(n - 1), v \in ValuesAt(n)}

DataLists == UNION {DataOfLen(n) : n \in 0..MaxData}

\* the lists of n elements of S
ListsOfLen(S, n) == [1..n -> S]

----------------------------------------------------------------------------
(* the program: the loop of __main__ (lines 148-150) and main (135-138) *)

\* the script started on a list of packages
Init ==
    /\ \E n \in 0..MaxPackages :
          packages \in ListsOfLen(WorkoutTypes \X SampleData, n)
    /\ idx = 1
    /\ pc = "read"
    /\ training = NoValue
    /\ info = NoValue
    /\ out = <<>>
    /\ exc = "None"

\* mutant: a pair whose dispatch raises is skipped and the loop goes on
ReadPackage_SkipOnError ==
    /\ pc = "read"
    /\ idx <= Len(packages)
    /\ LET r == read_package(packages[idx][1], packages[idx][2]) IN
         IF r.exc = "None"
         THEN /\ training' = r.val
              /\ pc' = "main"
              /\ idx' = idx
         ELSE /\ training' = training
              /\ pc' = "read"
              /\ idx' = idx + 1
    /\ UNCHANGED <<packages, info, out, exc>>

\* line 149: training = read_package(workout_type, data)
ReadPackage ==
    /\ pc = "read"
    /\ idx <= Len(packages)
    /\ LET r == read_package(packages[idx][1], packages[idx][2]) IN
         IF r.exc = "None"
         THEN /\ training' = r.val
              /\ pc' = "main"
              /\ exc' = exc
         ELSE /\ training' = training
              /\ pc' = "error"
              /\ exc' = r.exc
    /\ UNCHANGED <<packages, idx, info, out>>

\* line 137: info = training.show_training_info()
ShowTrainingInfo ==
    /\ pc = "main"
    /\ LET r == main_info(training) IN
         IF r.exc = "None"
         THEN /\ info' = r.val
              /\ pc' = "print"
              /\ exc' = exc
         ELSE /\ info' = info
              /\ pc' = "error"
              /\ exc' = r.exc
    /\ UNCHANGED <<packages, idx, training, out>>

\* mutant: a line is put before the lines printed so far
PrintMessage_Prepend ==
    /\ pc = "print"
    /\ LET r == get_message(info) IN
         IF r.exc = "None"
         THEN /\ out' = <<r.val>> \o out
              /\ idx' = idx + 1
              /\ pc' = "read"
              /\ exc' = exc
         ELSE /\ out' = out
              /\ idx' = idx
              /\ pc' = "error"
              /\ exc' = r.exc
    /\ UNCHANGED <<packages, training, info>>

\* line 138: print(info.get_message()); main returns to the loop
PrintMessage ==
    /\ pc = "print"
    /\ LET r == get_message(info) IN
         IF r.exc = "None"
         THEN /\ out' = Append(out, r.val)
              /\ idx' = idx + 1
              /\ pc' = "read"
              /\ exc' = exc
         ELSE /\ out' = out
              /\ idx' = idx
              /\ pc' = "error"
              /\ exc' = r.exc
    /\ UNCHANGED <<packages, training, info>>

\* the for loop is exhausted: the script ends normally
Finish ==
    /\ pc = "read"
    /\ idx > Len(packages)
    /\ pc' = "done"
    /\ UNCHANGED <<packages, idx, training, info, out, exc>>

Next == ReadPackage \/ ShowTrainingInfo \/ PrintMessage \/ Finish

Spec == Init /\ [][Next]_vars

\* One use of the module's functions: either read_package on one
\* (code, params) pair followed by main, or an object of any class of the
\* hierarchy constructed directly and handed to main.
InitUnit ==
    /\ idx = 1
    /\ info = NoValue
    /\ out = <<>>
    /\ exc = "None"
    /\ \/ /\ packages \in ListsOfLen(WorkoutTypes \X DataLists, 1)
          /\ pc = "read"
          /\ training = NoValue
       \/ /\ packages = <<>>
          /\ pc = "main"
          /\ \E c \in Classes :
                training \in {New(c, d).val :
                                 d \in {x \in DataLists :
                                          Len(x) = Len(InitParams(c))}}

UnitSpec == InitUnit /\ [][Next]_vars

----------------------------------------------------------------------------
(* vocabulary of the properties *)

KnownCodes == {"SWM", "RUN", "WLK"}

\* the number of parameters each code takes
Arity(code) ==
    CASE code = "SWM" -> 5
      [] code = "RUN" -> 3
      [] code = "WLK" -> 4

\* the class each code stands for
VariantOf(code) ==
    CASE code = "SWM" -> "Swimming"
      [] code = "RUN" -> "Running"
      [] code = "WLK" -> "SportsWalking"

IsInstance(v) == v.kind = "instance"

IsInfo(v) == "calories" \in DOMAIN v

Less(x, y) == x.num * y.den < y.num * x.den

\* the pair the loop is at, once read_package has been called on it
Dispatched ==
    /\ idx <= Len(packages)
    /\ pc \in {"main", "print", "error"}

CurCode == packages[idx][1]

CurData == packages[idx][2]

\* main has built the summary of an object of class c
Summarised(c) ==
    /\ pc = "print"
    /\ IsInstance(training)
    /\ training.cls = c
    /\ IsInfo(info)

----------------------------------------------------------------------------
\* C1: read_package on a code that is not SWM, RUN or WLK fails at dispatch:
\* it never completes normally and hands a value back to the caller.
C1_UnknownCodeFailsAtDispatch ==
    (Dispatched /\ CurCode \notin KnownCodes) =>
        (pc = "error" /\ training = NoValue)

----------------------------------------------------------------------------
\* C2: for a known code read_package succeeds exactly when the parameter
\* list has the variant's length (SWM 5, RUN 3, WLK 4); with any other
\* length it raises the argument-count error (TypeError) and no workout
\* object reaches the caller.
C2_ArityDecidesDispatch ==
    (Dispatched /\ CurCode \in KnownCodes) =>
        IF Len(CurData) = Arity(CurCode)
        THEN /\ IsInstance(training)
             /\ exc # "TypeError"
        ELSE /\ pc = "error"
             /\ exc = "TypeError"
             /\ training = NoValue
             /\ info = NoValue
             /\ out = <<>>

\* a known code was dispatched with one parameter too many and the run
\* ended in the argument-count error
C2_Witness ==
    /\ Dispatched
    /\ CurCode = "SWM"
    /\ Len(CurData) = Arity(CurCode) + 1
    /\ pc = "error"
    /\ exc = "TypeError"

----------------------------------------------------------------------------
\* C3: spent_calories of a workout whose class does not override it fails
\* (NotImplemented), so no summary of such a workout is ever built and no
\* summary holds a non-numeric calories field.
C3_BaseCaloriesFail ==
    /\ (IsInstance(training) /\ training.cls = "Training") => ~IsInfo(info)
    /\ IsInfo(info) => IsNumber(info.calories)

----------------------------------------------------------------------------
\* C9: for a known code with a parameter list of the right length,
\* read_package returns an object of the mapped class (SWM Swimming,
\* RUN Running, WLK SportsWalking) whose fields are the parameters in
\* positional order, and the summary built from it carries the class name
\* as training_type and the duration unchanged.
C9_DispatchBuildsVariant ==
    (/\ Dispatched
     /\ CurCode \in KnownCodes
     /\ Len(CurData) = Arity(CurCode)) =>
        /\ IsInstance(training)
        /\ training.cls = VariantOf(CurCode)
        /\ training.attrs.action = CurData[1]
        /\ training.attrs.duration = CurData[2]
        /\ training.attrs.weight = CurData[3]
        /\ CurCode = "RUN" =>
              DOMAIN training.attrs = {"action", "duration", "weight"}
        /\ CurCode = "WLK" =>
              /\ DOMAIN training.attrs =
                    {"action", "duration", "weight", "height"}
              /\ training.attrs.height = CurData[4]
        /\ CurCode = "SWM" =>
              /\ DOMAIN training.attrs =
                    {"action", "duration", "weight", "length_pool",
                     "count_pool"}
              /\ training.attrs.length_pool = CurData[4]
              /\ training.attrs.count_pool = CurData[5]
        /\ IsInfo(info) =>
              /\ info.training_type = VariantOf(CurCode)
              /\ info.duration = CurData[2]

\* a two-hour swim was dispatched and summarised
C9_Witness ==
    /\ Dispatched
    /\ CurCode = "SWM"
    /\ Summarised("Swimming")
    /\ training.attrs.length_pool = Num(25)
    /\ training.attrs.count_pool = Num(40)
    /\ info.duration = Num(2)

----------------------------------------------------------------------------
\* the step-based mean speed of the properties: a * 0.65 / 1000 / t
StepSpeed(a, t) == TrueDiv(TrueDiv(Mul(a, Rat(65, 100)), Num(1000)), t)

\* (18 * speed - 20) * w / 1000 * (t * 60)
RunningFormula(speed, t, w) ==
    Mul(TrueDiv(Mul(Sub(Mul(Num(18), speed), Num(20)), w), Num(1000)),
        Mul(t, Num(60)))

\* the summary of Running(15000, 1, 75) is being printed
RunningExample ==
    /\ Summarised("Running")
    /\ training.attrs = [action |-> Num(15000), duration |-> Num(1),
                         weight |-> Num(75)]

\* C6 (as amended): for a Running workout spent_calories is
\* (18 * mean_speed - 20) * weight / 1000 * (duration * 60) with
\* mean_speed = action * 0.65 / 1000 / duration; for action 15000,
\* duration 1, weight 75 the distance is 9.75, the mean speed 9.75 and the
\* calories 699.75.
C6_RunningCalories ==
    Summarised("Running") =>
        LET a == training.attrs.action
            t == training.attrs.duration
            w == training.attrs.weight
        IN  /\ info.speed = StepSpeed(a, t)
            /\ info.calories = RunningFormula(info.speed, t, w)
            /\ RunningExample =>
                  /\ info.distance = Rat(975, 100)
                  /\ info.speed = Rat(975, 100)
                  /\ info.calories = Rat(69975, 100)

\* C6 (as stated): the same, with calories 683.25 for action 15000,
\* duration 1, weight 75.
C6_Original ==
    Summarised("Running") =>
        LET a == training.attrs.action
            t == training.attrs.duration
            w == training.attrs.weight
        IN  /\ info.speed = StepSpeed(a, t)
            /\ info.calories = RunningFormula(info.speed, t, w)
            /\ RunningExample =>
                  /\ info.distance = Rat(975, 100)
                  /\ info.speed = Rat(975, 100)
                  /\ info.calories = Rat(68325, 100)

C6_Witness == RunningExample /\ info.calories = Rat(69975, 100)

----------------------------------------------------------------------------
\* (0.035 * w + q * 0.029 * w) * (t * 60)
WalkingFormula(q, t, w) ==
    Mul(Add(Mul(Rat(35, 1000), w), Mul(Mul(Num(q), Rat(29, 1000)), w)),
        Mul(t, Num(60)))

\* q is the floor of x / h, for h > 0
IsFloorOf(q, x, h) ==
    /\ ~Less(x, Mul(Num(q), h))
    /\ Less(x, Mul(Num(q + 1), h))

\* the summary of SportsWalking(9000, 1, 75, 180) is being printed
WalkingExample ==
    /\ Summarised("SportsWalking")
    /\ training.attrs = [action |-> Num(9000), duration |-> Num(1),
                         weight |-> Num(75), height |-> Num(180)]

\* C7: for a SportsWalking workout spent_calories is
\* (0.035 * weight + floor(mean_speed^2 / height) * 0.029 * weight)
\* * (duration * 60), with the floor and not the true quotient; whenever
\* mean_speed^2 < height the speed term is 0 and the calories are
\* 0.035 * weight * duration * 60; for action 9000, duration 1, weight 75,
\* height 180 the distance is 5.85, the speed 5.85 and the calories 157.5.
\* (The heights tried are at least 1, so the floor is between 0 and the
\* squared speed.)
C7_WalkingCalories ==
    Summarised("SportsWalking") =>
        LET a  == training.attrs.action
            t  == training.attrs.duration
            w  == training.attrs.weight
            h  == training.attrs.height
            sq == Mul(info.speed, info.speed)
        IN  /\ info.speed = StepSpeed(a, t)
            /\ \E q \in 0..(sq.num \div sq.den) :
                  /\ IsFloorOf(q, sq, h)
                  /\ info.calories = WalkingFormula(q, t, w)
            /\ Less(sq, h) =>
                  info.calories =
                      Mul(Mul(Mul(Rat(35, 1000), w), t), Num(60))
            /\ WalkingExample =>
                  /\ info.distance = Rat(585, 100)
                  /\ info.speed = Rat(585, 100)
                  /\ info.calories = Rat(1575, 10)

C7_Witness == WalkingExample /\ info.calories = Rat(1575, 10)

\* a walk whose squared speed is at least the height, so that the floor
\* and the true quotient differ and the speed term counts
C7_FloorWitness ==
    /\ Summarised("SportsWalking")
    /\ ~Less(Mul(info.speed, info.speed), training.attrs.height)

----------------------------------------------------------------------------
\* the summary of Swimming(720, 1, 80, 25, 40) is being printed
SwimmingExample ==
    /\ Summarised("Swimming")
    /\ training.attrs = [action |-> Num(720), duration |-> Num(1),
                         weight |-> Num(80), length_pool |-> Num(25),
                         count_pool |-> Num(40)]

\* C8: for a Swimming workout mean_speed is
\* length_pool * count_pool / 1000 / duration whatever the action, and
\* spent_calories is (mean_speed + 1.1) * (2 * weight); for action 720,
\* duration 1, weight 80, length_pool 25, count_pool 40 the mean speed is
\* 1.0 and the calories are 336.0.
C8_SwimmingSpeedAndCalories ==
    Summarised("Swimming") =>
        LET t  == training.attrs.duration
            w  == training.attrs.weight
            lp == training.attrs.length_pool
            cp == training.attrs.count_pool
        IN  /\ info.speed = TrueDiv(TrueDiv(Mul(lp, cp), Num(1000)), t)
            /\ \A a \in ValuesAt(1) :
                  get_mean_speed([training EXCEPT !.attrs.action = Num(a)])
                      = Ok(info.speed)
            /\ info.calories =
                  Mul(Add(info.speed, Rat(11, 10)), Mul(Num(2), w))
            /\ SwimmingExample =>
                  /\ info.speed = Num(1)
                  /\ info.calories = Num(336)

C8_Witness == SwimmingExample /\ info.calories = Num(336)

----------------------------------------------------------------------------
\* C10: in every summary the distance is action * step_length / 1000 with
\* step_length 0.65 for Running and SportsWalking and 1.38 for Swimming;
\* so for Running and SportsWalking speed * duration is the distance,
\* while for Swimming the distance comes from the action alone, whatever
\* length_pool and count_pool are.
C10_DistanceFromSteps ==
    /\ (Summarised("Running") \/ Summarised("SportsWalking")) =>
          /\ info.distance =
                TrueDiv(Mul(training.attrs.action, Rat(65, 100)), Num(1000))
          /\ Mul(info.speed, info.duration) = info.distance
    /\ Summarised("Swimming") =>
          /\ info.distance =
                TrueDiv(Mul(training.attrs.action, Rat(138, 100)), Num(1000))
          /\ \A lp \in ValuesAt(4), cp \in ValuesAt(5) :
                get_distance([training EXCEPT
                                 !.attrs.length_pool = Num(lp),
                                 !.attrs.count_pool = Num(cp)])
                    = info.distance

\* a swim whose speed * duration is not its distance
C10_Witness ==
    /\ Summarised("Swimming")
    /\ Mul(info.speed, info.duration) # info.distance
    /\ info.distance = Rat(9936, 10000)

----------------------------------------------------------------------------
\* a pair the formulas are defined on: a known code, the right number of
\* parameters, a duration that is not zero and, for WLK, a height that is
\* not zero (the divisors of the formulas)
Valid(p) ==
    /\ p[1] \in KnownCodes
    /\ Len(p[2]) = Arity(p[1])
    /\ p[2][2] # Num(0)
    /\ p[1] = "WLK" => p[2][4] # Num(0)

\* a pair with an unknown code or a parameter list of the wrong length
Bad(p) == p[1] \notin KnownCodes \/ Len(p[2]) # Arity(p[1])

\* the line of a valid pair: dispatched, summarised, rendered
Rendered(p) ==
    get_message(show_training_info(read_package(p[1], p[2]).val).val).val

\* the list of the source (lines 142-146)
SourcePackages ==
    << <<"SWM", <<Num(720), Num(1), Num(80), Num(25), Num(40)>> >>,
       <<"RUN", <<Num(15000), Num(1), Num(75)>> >>,
       <<"WLK", <<Num(9000), Num(1), Num(75), Num(180)>> >> >>

Decimal(w, a, b, c) == [neg |-> FALSE, whole |-> w, frac |-> <<a, b, c>>]

\* the three lines the script prints on the list of the source
SourceOutput ==
    << [training_type |-> "Swimming",
        duration |-> Decimal(1, 0, 0, 0), distance |-> Decimal(0, 9, 9, 4),
        speed |-> Decimal(1, 0, 0, 0), calories |-> Decimal(336, 0, 0, 0)],
       [training_type |-> "Running",
        duration |-> Decimal(1, 0, 0, 0), distance |-> Decimal(9, 7, 5, 0),
        speed |-> Decimal(9, 7, 5, 0), calories |-> Decimal(699, 7, 5, 0)],
       [training_type |-> "SportsWalking",
        duration |-> Decimal(1, 0, 0, 0), distance |-> Decimal(5, 8, 5, 0),
        speed |-> Decimal(5, 8, 5, 0), calories |-> Decimal(157, 5, 0, 0)] >>

AllValid == \A k \in 1..Len(packages) : Valid(packages[k])

\* C4: on a list of valid pairs the script prints one line per pair, the
\* k-th line being the rendered summary of the k-th pair, and each pair is
\* dispatched, summarised and printed before the next pair is dispatched.
C4_OneLinePerPairInOrder ==
    /\ Len(out) = idx - 1
    /\ Len(out) <= Len(packages)
    /\ \A k \in 1..Len(out) :
          /\ Valid(packages[k])
          /\ out[k] = Rendered(packages[k])
    /\ pc \in {"main", "print"} =>
          /\ idx <= Len(packages)
          /\ training = read_package(CurCode, CurData).val
    /\ pc = "print" => info = show_training_info(training).val
    /\ AllValid =>
          /\ pc # "error"
          /\ pc = "done" => Len(out) = Len(packages)
    /\ (packages = SourcePackages /\ pc = "done") => out = SourceOutput

\* the script has run to its end on the list of the source
C4_Witness ==
    /\ packages = SourcePackages
    /\ pc = "done"
    /\ Len(out) = 3

\* C5: if the pair at position i has an unknown code or a parameter list
\* of the wrong length, the run aborts at that pair: the lines of the pairs
\* before it have been printed, no line is printed for pair i or any later
\* pair, and nothing runs after the error.
C5_AbortAtBadPair ==
    /\ \A i \in 1..Len(packages) :
          Bad(packages[i]) =>
              /\ idx <= i
              /\ Len(out) < i
              /\ pc # "done"
              /\ idx = i =>
                    /\ pc \in {"read", "main", "error"}
                    /\ Len(out) = i - 1
                    /\ \A k \in 1..(i - 1) : out[k] = Rendered(packages[k])
                    /\ pc = "main" => main_info(training).exc # "None"
    /\ pc = "error" =>
          /\ exc # "None"
          /\ ~ENABLED Next

\* the second pair has an unknown code: the first line was printed and the
\* run ended in an error at the second pair, with a third pair left
C5_Witness ==
    /\ Len(packages) = 3
    /\ packages[2][1] \notin KnownCodes
    /\ Valid(packages[3])
    /\ idx = 2
    /\ pc = "error"
    /\ Len(out) = 1

=============================================================================
